---- MODULE Spec2Model ----
(***************************************************************************)
(* StylesheetsRepository of @enhanced-dom/css: named style sheets of a     *)
(* document (or shadow root), the rules inside them addressed by selector  *)
(* suffix, creation of either on demand, the re-serialisation of a sheet   *)
(* after a write, and the two miss notifications of strict lookups.        *)
(*                                                                         *)
(* Text is a sequence of tokens.  A selector is a sequence of compound     *)
(* selectors ("a" stands for .a) separated by the descendant combinator    *)
(* " ".  The host style engine (the parser behind innerHTML and the        *)
(* serialiser behind cssText) is modelled by ParseRules and cssText.       *)
(***************************************************************************)
EXTENDS Integers, Sequences, FiniteSets, TLC

VARIABLES childNodes, headNodes, hasHead, events, ret, call, pre

vars == <<childNodes, headNodes, hasHead, events, ret, call, pre>>

\* ------------------------------------------------------------------ bounds
MaxRules == 2
MaxInitNodes == 2

\* ------------------------------------------------------------ input domains
Names == {"theme", "layout"}
RuleNames == {"theme"}
Atoms == {"a", "b", "c"}
Selectors == {<<"b">>, <<"c">>, <<"a", " ", "b">>}
Props == {"color"}
Values == {"red", "blue"}
NewValues == {"red"}
PropSeq == <<"color">>
AtTok == "@media{}"
Builds == {"browser", "cssom"}

eventEmitterType == "@enhanced-dom/stylesheetsRepository"
NoAttr == "null"

\* --------------------------------------------------------------- generic
\* Array.prototype.find / findIndex: the 1-based index of the first element
\* satisfying P, 0 when there is none.
\* FirstIdx takes the set of the indices that satisfy the predicate.
FirstIdx(found) ==
  IF found = {} THEN 0 ELSE CHOOSE i \in found : \A j \in found : i <= j

\* the index of the first occurrence of token x in text t, 0 when there is none
IndexOf(t, x) == FirstIdx({i \in 1..Len(t) : t[i] = x})

\* String.prototype.endsWith
EndsWith(s, t) ==
  /\ Len(t) <= Len(s)
  /\ SubSeq(s, Len(s) - Len(t) + 1, Len(s)) = t

RECURSIVE Flatten(_)
Flatten(seqs) == IF seqs = <<>> THEN <<>> ELSE Head(seqs) \o Flatten(Tail(seqs))

RECURSIVE TrimLeft(_)
TrimLeft(t) == IF t # <<>> /\ Head(t) = " " THEN TrimLeft(Tail(t)) ELSE t

RECURSIVE TrimRight(_)
TrimRight(t) ==
  IF t # <<>> /\ t[Len(t)] = " " THEN TrimRight(SubSeq(t, 1, Len(t) - 1)) ELSE t

Trim(t) == TrimRight(TrimLeft(t))

\* ------------------------------------------------------ host style engine
EmptyStyle == [p \in Props |-> ""]

StyleRule(sel, style) == [kind |-> "style", selectorText |-> sel, style |-> style]
AtRule == [kind |-> "at", selectorText |-> <<>>, style |-> EmptyStyle]

\* CSSStyleDeclaration.cssText: "p: v; " for every declaration that is set
styleText(style) ==
  Flatten([i \in 1..Len(PropSeq) |->
            IF style[PropSeq[i]] = "" THEN <<>>
            ELSE <<PropSeq[i], ":", " ", style[PropSeq[i]], ";", " ">>])

\* CSSRule.cssText (getter): "sel { p: v; }"; an at-rule is one opaque token.
\* A rule left without a selector serialises to nothing.
cssText(rule) ==
  IF rule.kind = "at" THEN <<AtTok>>
  ELSE IF rule.selectorText = <<>> THEN <<>>
  ELSE rule.selectorText \o <<" ", "{", " ">> \o styleText(rule.style) \o <<"}">>

\* the text before the first token x (all of it when x does not occur), and
\* the text after it
TextBefore(t, x) == IF IndexOf(t, x) = 0 THEN t ELSE SubSeq(t, 1, IndexOf(t, x) - 1)
TextAfter(t, x) == IF IndexOf(t, x) = 0 THEN <<>> ELSE SubSeq(t, IndexOf(t, x) + 1, Len(t))

NoSpaces(t) == SelectSeq(t, LAMBDA x : x # " ")

\* one declaration "p : v" added to a style; anything else is skipped
Declaration(piece, acc) ==
  IF Len(piece) = 3 /\ piece[1] \in Props /\ piece[2] = ":" /\ piece[3] \in Values
  THEN [acc EXCEPT ![piece[1]] = piece[3]]
  ELSE acc

\* the declarations of a rule body, separated by ";"
RECURSIVE ParseDecls(_, _)
ParseDecls(body, acc) ==
  IF body = <<>> THEN acc
  ELSE ParseDecls(TextAfter(body, ";"), Declaration(NoSpaces(TextBefore(body, ";")), acc))

ValidSelector(prelude) ==
  /\ prelude # <<>>
  /\ \A i \in 1..Len(prelude) : prelude[i] \in Atoms \cup {" "}
  /\ \A i \in 1..(Len(prelude) - 1) : (prelude[i] = " ") # (prelude[i + 1] = " ")

\* the rule a prelude and a body make: none when the prelude is no selector
RuleOf(prelude, body) ==
  IF ValidSelector(prelude) THEN <<StyleRule(prelude, ParseDecls(body, EmptyStyle))>>
  ELSE <<>>

\* the text up to a "}": a rule when it has a "{"
ParseRule(chunk) ==
  IF IndexOf(chunk, "{") = 0 THEN <<>>
  ELSE RuleOf(Trim(TextBefore(chunk, "{")), TextAfter(chunk, "{"))

\* the style engine parsing the text content of a style node into its rule
\* list: a rule whose prelude is no selector is dropped
RECURSIVE ParseRules(_)
ParseFrom(t) ==
  IF t = <<>> THEN <<>>
  ELSE IF Head(t) = AtTok THEN <<AtRule>> \o ParseRules(Tail(t))
  ELSE ParseRule(TextBefore(t, "}")) \o ParseRules(TextAfter(t, "}"))

ParseRules(text) == ParseFrom(TrimLeft(text))

\* ------------------------------------------------------------------- DOM
Div == [tag |-> "div", name |-> NoAttr, text |-> <<>>, rules |-> <<>>]
TextNode == [tag |-> "#text", name |-> NoAttr, text |-> <<>>, rules |-> <<>>]
PlainStyle == [tag |-> "style", name |-> NoAttr, text |-> <<>>, rules |-> <<>>]

\* document.createElement('style') + setAttribute(STYLESHEET_ATTRIBUTE_NAME, name)
createElement(name) == [tag |-> "style", name |-> name, text |-> <<>>, rules |-> <<>>]

IsStyle(n) == n.tag = "style"

\* A sheet handle is the place of its owner node, a rule handle the place of
\* the sheet and the index of the rule in cssRules; NoSheet and NoRule are
\* the undefined a lookup returns on a miss.
NoSheet == [in |-> "none", idx |-> 0]
NoRule == [in |-> "none", idx |-> 0, rule |-> 0]
Void == "void"
Undefined == "undefined"
TypeError == "TypeError"

parentStyleSheet(rh) == [in |-> rh.in, idx |-> rh.idx]

NodeAt(w, h) == IF h.in = "head" THEN w.headNodes[h.idx] ELSE w.childNodes[h.idx]

SetNode(w, h, node) ==
  IF h.in = "head" THEN [w EXCEPT !.headNodes[h.idx] = node]
  ELSE [w EXCEPT !.childNodes[h.idx] = node]

\* element.innerHTML = contents on a style node: the text content is
\* replaced and the engine reparses the sheet
setInnerHTML(w, h, contents) ==
  SetNode(w, h, [NodeAt(w, h) EXCEPT !.text = contents, !.rules = ParseRules(contents)])

\* document.styleSheets: the sheets of the style nodes, in document order
styleSheets(w) ==
  SelectSeq([i \in 1..Len(w.headNodes) |-> [in |-> "head", idx |-> i]],
            LAMBDA h : IsStyle(w.headNodes[h.idx]))
  \o SelectSeq([i \in 1..Len(w.childNodes) |-> [in |-> "doc", idx |-> i]],
               LAMBDA h : IsStyle(w.childNodes[h.idx]))

insertBefore(nodes, node, i) ==
  SubSeq(nodes, 1, i - 1) \o <<node>> \o SubSeq(nodes, i, Len(nodes))

\* ---------------------------------------------------------- notifications
UnknownStylesheetEvent(stylesheetName) ==
  [type |-> "UnknownStylesheet", stylesheetName |-> stylesheetName,
   selector |-> <<>>, emitter |-> eventEmitterType]

UnknownCssRuleEvent(stylesheetName, selector) ==
  [type |-> "UnknownCssRule", stylesheetName |-> stylesheetName,
   selector |-> selector, emitter |-> eventEmitterType]

dispatchEvent(w, e) == [w EXCEPT !.events = Append(@, e)]

\* ------------------------------------------------------------- repository
\* Every method takes the world w = [childNodes, headNodes, hasHead, events]
\* and yields [w |-> the world after the call, r |-> the value returned].
\* A method that goes on with the result of a call it made is written as the
\* call followed by an operator on that result (g, s: a world and a value).

\* variant: the first tagged style sheet is taken, whatever its name
findStylesheetAnyName(w, stylesheetName) ==
  LET sheets == styleSheets(w)
      i == FirstIdx({k \in 1..Len(sheets) : NodeAt(w, sheets[k]).name # NoAttr})
  IN IF i = 0 THEN NoSheet ELSE sheets[i]

\* Array.from(this._document.styleSheets).find(s => the attribute of its
\* owner node is stylesheetName), NoSheet when there is none
findStylesheet(w, stylesheetName) ==
  LET sheets == styleSheets(w)
      i == FirstIdx({k \in 1..Len(sheets) : NodeAt(w, sheets[k]).name = stylesheetName})
  IN IF i = 0 THEN NoSheet ELSE sheets[i]

\* variant: the notification does not depend on strict
getStylesheetAlwaysNotifies(w, stylesheetName, strict) ==
  [w |-> IF findStylesheet(w, stylesheetName) = NoSheet
         THEN dispatchEvent(w, UnknownStylesheetEvent(stylesheetName))
         ELSE w,
   r |-> findStylesheet(w, stylesheetName)]

getStylesheet(w, stylesheetName, strict) ==
  [w |-> IF findStylesheet(w, stylesheetName) = NoSheet /\ strict
         THEN dispatchEvent(w, UnknownStylesheetEvent(stylesheetName))
         ELSE w,
   r |-> findStylesheet(w, stylesheetName)]

\* documentNodes.find(n => n is an element named style)
firstStylesheet(documentNodes) ==
  FirstIdx({i \in 1..Len(documentNodes) : IsStyle(documentNodes[i])})

\* documentNodes.find(n => n is not a style element, documentNodes.indexOf(firstStylesheet)):
\* the second argument of Array.prototype.find is thisArg, not a start index,
\* so the search runs over the whole list
subsequentNode(documentNodes, fromIndex) ==
  FirstIdx({i \in 1..Len(documentNodes) : ~IsStyle(documentNodes[i])})

\* lines 66-87: where the new style node goes in a document without head
placeInDocument(documentNodes, stylesheetNode) ==
  IF firstStylesheet(documentNodes) # 0
  THEN IF subsequentNode(documentNodes, firstStylesheet(documentNodes)) # 0
       THEN insertBefore(documentNodes, stylesheetNode,
                         subsequentNode(documentNodes, firstStylesheet(documentNodes)))
       ELSE Append(documentNodes, stylesheetNode)
  ELSE <<stylesheetNode>> \o documentNodes

\* variant: head is used only when no direct child is a style node
placeNodeStylesFirst(w, stylesheetNode) ==
  IF w.hasHead /\ firstStylesheet(w.childNodes) = 0
  THEN [w EXCEPT !.headNodes = Append(@, stylesheetNode)]
  ELSE [w EXCEPT !.childNodes = placeInDocument(@, stylesheetNode)]

\* lines 62-87: where the new style node goes
placeNode(w, stylesheetNode) ==
  IF w.hasHead
  THEN [w EXCEPT !.headNodes = Append(@, stylesheetNode)]
  ELSE [w EXCEPT !.childNodes = placeInDocument(@, stylesheetNode)]

\* lines 58-88, g the result of the non-strict lookup: a node is created
\* when the lookup found none
ensureNode(g, stylesheetName) ==
  IF g.r = NoSheet THEN placeNode(g.w, createElement(stylesheetName)) ELSE g.w

\* variant: a node is created whether or not the name is already there
getOrCreateStylesheetAlwaysCreates(w, stylesheetName) ==
  getStylesheet(placeNode(w, createElement(stylesheetName)), stylesheetName, TRUE)

\* variant: the first lookup is strict
getOrCreateStylesheetStrictLookup(w, stylesheetName) ==
  getStylesheet(ensureNode(getStylesheet(w, stylesheetName, TRUE), stylesheetName),
                stylesheetName, TRUE)

getOrCreateStylesheet(w, stylesheetName) ==
  getStylesheet(ensureNode(getStylesheet(w, stylesheetName, FALSE), stylesheetName),
                stylesheetName, TRUE)

\* line 94, s the result of getOrCreateStylesheet
setContents(s, contents) == [w |-> setInnerHTML(s.w, s.r, contents), r |-> Void]

createOrUpdateStylesheet(w, stylesheetName, contents) ==
  setContents(getOrCreateStylesheet(w, stylesheetName), contents)

_serializeStylesheet(w, stylesheet) ==
  Flatten([i \in 1..Len(NodeAt(w, stylesheet).rules) |->
            cssText(NodeAt(w, stylesheet).rules[i])])

\* variant: the backing text is not rewritten
_refreshStylesheetSkipped(w, stylesheet) == w

_refreshStylesheet(w, stylesheet) ==
  setInnerHTML(w, stylesheet, _serializeStylesheet(w, stylesheet))

\* variant: the selector must equal the rule's selector text
findRuleExact(cssRules, selector) ==
  FirstIdx({i \in 1..Len(cssRules) :
             cssRules[i].kind = "style" /\ cssRules[i].selectorText = selector})

\* variant: the position among the style rules is taken for the position
\* in the rule list
findRuleFilteredIndex(cssRules, selector) ==
  FirstIdx({Cardinality({j \in 1..i : cssRules[j].kind = "style"}) :
            i \in {k \in 1..Len(cssRules) : cssRules[k].kind = "style"
                                           /\ EndsWith(cssRules[k].selectorText, selector)}})

\* the index in cssRules of the first CSSStyleRule whose selectorText ends
\* with selector, 0 when there is none
findRule(cssRules, selector) ==
  FirstIdx({i \in 1..Len(cssRules) :
             cssRules[i].kind = "style" /\ EndsWith(cssRules[i].selectorText, selector)})

\* the handle of rule i of sheet h, NoRule for i = 0
RuleHandle(h, i) == IF i = 0 THEN NoRule ELSE [in |-> h.in, idx |-> h.idx, rule |-> i]

\* lines 113-121, g the result of getStylesheet with a sheet found
ruleOfSheet(g, stylesheetName, selector, strict) ==
  [w |-> IF findRule(NodeAt(g.w, g.r).rules, selector) = 0 /\ strict
         THEN dispatchEvent(g.w, UnknownCssRuleEvent(stylesheetName, selector))
         ELSE g.w,
   r |-> RuleHandle(g.r, findRule(NodeAt(g.w, g.r).rules, selector))]

\* lines 110-121, g the result of getStylesheet
ruleOf(g, stylesheetName, selector, strict) ==
  IF g.r = NoSheet THEN [w |-> g.w, r |-> NoRule]
  ELSE ruleOfSheet(g, stylesheetName, selector, strict)

\* variant: a missing sheet does not end the lookup
ruleOfNoShortCircuit(g, stylesheetName, selector, strict) ==
  IF g.r = NoSheet
  THEN [w |-> IF strict
              THEN dispatchEvent(g.w, UnknownCssRuleEvent(stylesheetName, selector))
              ELSE g.w,
        r |-> NoRule]
  ELSE ruleOfSheet(g, stylesheetName, selector, strict)

getRuleNoShortCircuit(w, stylesheetName, selector, strict) ==
  ruleOfNoShortCircuit(getStylesheet(w, stylesheetName, strict), stylesheetName,
                       selector, strict)

getRule(w, stylesheetName, selector, strict) ==
  ruleOf(getStylesheet(w, stylesheetName, strict), stylesheetName, selector, strict)

\* variant: the new rule is written in front of the serialised sheet
appendRuleInFront(s, stylesheetName, selector) ==
  createOrUpdateStylesheet(s.w, stylesheetName,
    selector \o <<"{", "}", " ">> \o _serializeStylesheet(s.w, s.r))

\* lines 128-129, s the result of getOrCreateStylesheet: the sheet's text
\* followed by " selector{}" becomes its contents
appendRule(s, stylesheetName, selector) ==
  createOrUpdateStylesheet(s.w, stylesheetName,
    _serializeStylesheet(s.w, s.r) \o <<" ">> \o selector \o <<"{", "}">>)

\* variant: the first rule of the sheet is taken
firstRule(s) == [w |-> s.w, r |-> RuleHandle(s.r, IF NodeAt(s.w, s.r).rules = <<>> THEN 0 ELSE 1)]

\* line 131, s the result of getOrCreateStylesheet: the last rule of the sheet
\* (undefined when the sheet has no rule)
lastRule(s) == [w |-> s.w, r |-> RuleHandle(s.r, Len(NodeAt(s.w, s.r).rules))]

\* lines 127-131
newRule(w, stylesheetName, selector) ==
  lastRule(getOrCreateStylesheet(
    appendRule(getOrCreateStylesheet(w, stylesheetName), stylesheetName, selector).w,
    stylesheetName))

\* lines 126-133, g the result of the non-strict getRule
ruleOrNew(g, stylesheetName, selector) ==
  IF g.r # NoRule THEN g ELSE newRule(g.w, stylesheetName, selector)

\* variant: the rule is appended without looking for an existing one
getOrCreateRuleAlwaysAppends(w, stylesheetName, selector) ==
  newRule(getRule(w, stylesheetName, selector, FALSE).w, stylesheetName, selector)

getOrCreateRule(w, stylesheetName, selector) ==
  ruleOrNew(getRule(w, stylesheetName, selector, FALSE), stylesheetName, selector)

RuleAt(w, rh) == NodeAt(w, rh).rules[rh.rule]

SetRule(w, rh, rule) ==
  SetNode(w, rh, [NodeAt(w, rh) EXCEPT !.rules[rh.rule] = rule])

\* rule.cssText = contents.  CSSOM: "on setting, the cssText attribute must
\* do nothing" (browsers); the cssom library (jsdom) reparses the rule from
\* the text: the selector is whatever precedes "{", possibly nothing.
setCssText(rule, contents, build) ==
  IF build = "browser" \/ rule.kind # "style" THEN rule
  ELSE StyleRule(Trim(TextBefore(contents, "{")),
                 ParseDecls(TextBefore(TextAfter(contents, "{"), "}"), EmptyStyle))

\* variant: the sheet is refreshed before the rule is written
writeRuleRefreshFirst(g, rule) ==
  [w |-> SetRule(_refreshStylesheet(g.w, parentStyleSheet(g.r)), g.r, rule), r |-> Void]

\* lines 138-139 and 144-145, g the result of getOrCreateRule: the rule is
\* replaced by its written form and its sheet is refreshed; writing to an
\* undefined rule throws
writeRule(g, rule) ==
  [w |-> _refreshStylesheet(SetRule(g.w, g.r, rule), parentStyleSheet(g.r)), r |-> Void]

setRuleText(g, contents, build) ==
  IF g.r = NoRule THEN [w |-> g.w, r |-> TypeError]
  ELSE writeRule(g, setCssText(RuleAt(g.w, g.r), contents, build))

createOrUpdateRule(w, stylesheetName, selector, contents, build) ==
  setRuleText(getOrCreateRule(w, stylesheetName, selector), contents, build)

\* rule.style.setProperty(variableName, value)
styleSetProperty(rule, variableName, value) ==
  [rule EXCEPT !.style[variableName] = value]

setDeclaration(g, variableName, value) ==
  IF g.r = NoRule THEN [w |-> g.w, r |-> TypeError]
  ELSE writeRule(g, styleSetProperty(RuleAt(g.w, g.r), variableName, value))

setProperty(w, stylesheetName, selector, variableName, value) ==
  setDeclaration(getOrCreateRule(w, stylesheetName, selector), variableName, value)

\* rule.style.getPropertyValue(variableName): "" when the property is not set
styleGetPropertyValue(rule, variableName) == rule.style[variableName]

\* lines 150-153, g the result of getRule
valueOf(g, variableName) ==
  IF g.r = NoRule THEN [w |-> g.w, r |-> Undefined]
  ELSE [w |-> g.w, r |-> styleGetPropertyValue(RuleAt(g.w, g.r), variableName)]

\* variant: the rule is created when it is missing
getPropertyCreating(w, stylesheetName, selector, variableName, strict) ==
  valueOf(getOrCreateRule(w, stylesheetName, selector), variableName)

getProperty(w, stylesheetName, selector, variableName, strict) ==
  valueOf(getRule(w, stylesheetName, selector, strict), variableName)

\* ---------------------------------------------------------- state machine
World == [childNodes |-> childNodes, headNodes |-> headNodes, hasHead |-> hasHead,
          events |-> <<>>]

NodeKinds == {Div, TextNode, PlainStyle}

RECURSIVE SeqsUpTo(_, _)
SeqsUpTo(S, n) ==
  IF n = 0 THEN {<<>>}
  ELSE LET shorter == SeqsUpTo(S, n - 1)
       IN shorter \cup {Append(s, x) : s \in shorter, x \in S}

\* the documents the placement of a new style node is checked on
InitDocs == SeqsUpTo(NodeKinds, MaxInitNodes)

\* the documents the rule operations start from
RuleDocs == {<<PlainStyle>>, <<PlainStyle, Div>>}

\* texts handed to createOrUpdateStylesheet
AtText == <<AtTok>>
AtLastText == <<"b", "{", "}", AtTok>>
TwoRulesText == <<"a", " ", "b", "{", "color", ":", "blue", "}", "b", "{", "}">>

SheetTexts(n) == IF n \in RuleNames THEN {AtText, AtLastText, TwoRulesText} ELSE {TwoRulesText}

\* texts handed to createOrUpdateRule: a rule body, or a whole rule
RuleBody(value) == <<"{", "color", ":", value, "}">>

NoCall == [op |-> "none", name |-> "", selector |-> <<>>, prop |-> "", value |-> "",
           strict |-> FALSE, contents |-> <<>>, build |-> ""]

NoRet == [sheet |-> NoSheet, rule |-> NoRule, value |-> Void]

Snapshot(w) == [childNodes |-> w.childNodes, headNodes |-> w.headNodes, hasHead |-> w.hasHead]

Sheets(w) == {NodeAt(w, styleSheets(w)[i]) : i \in 1..Len(styleSheets(w))}

WithinBounds(w) == \A s \in Sheets(w) : Len(s.rules) <= MaxRules

InitWith(docs) ==
  /\ childNodes \in docs
  /\ hasHead \in BOOLEAN
  /\ headNodes = <<>>
  /\ events = <<>>
  /\ ret = NoRet
  /\ call = NoCall
  /\ pre = [childNodes |-> childNodes, headNodes |-> headNodes, hasHead |-> hasHead]

Init == InitWith(RuleDocs)

\* no call is in progress: the repository is synchronous and a call starts
\* only after the previous one has returned
Idle == call = NoCall

\* one completed call: the document after it, what it dispatched and returned
Apply(res, r, c) ==
  /\ WithinBounds(res.w)
  /\ childNodes' = res.w.childNodes
  /\ headNodes' = res.w.headNodes
  /\ hasHead' = res.w.hasHead
  /\ events' = res.w.events
  /\ ret' = r
  /\ call' = c
  /\ pre' = Snapshot(World)

GetStylesheet ==
  /\ Idle
  /\ \E n \in Names, strict \in BOOLEAN :
      \E res \in {getStylesheet(World, n, strict)} :
        Apply(res, [NoRet EXCEPT !.sheet = res.r],
              [NoCall EXCEPT !.op = "getStylesheet", !.name = n, !.strict = strict])

GetOrCreateStylesheet ==
  /\ Idle
  /\ \E n \in Names :
      \E res \in {getOrCreateStylesheet(World, n)} :
        Apply(res, [NoRet EXCEPT !.sheet = res.r],
              [NoCall EXCEPT !.op = "getOrCreateStylesheet", !.name = n])

CreateOrUpdateStylesheet ==
  /\ Idle
  /\ \E n \in Names :
      \E contents \in SheetTexts(n) :
        \E res \in {createOrUpdateStylesheet(World, n, contents)} :
          Apply(res, [NoRet EXCEPT !.value = res.r],
                [NoCall EXCEPT !.op = "createOrUpdateStylesheet", !.name = n,
                               !.contents = contents])

GetRule ==
  /\ Idle
  /\ \E n \in RuleNames, sel \in Selectors, strict \in BOOLEAN :
      \E res \in {getRule(World, n, sel, strict)} :
        Apply(res, [NoRet EXCEPT !.rule = res.r],
              [NoCall EXCEPT !.op = "getRule", !.name = n, !.selector = sel,
                             !.strict = strict])

GetOrCreateRule ==
  /\ Idle
  /\ \E n \in RuleNames, sel \in Selectors :
      \E res \in {getOrCreateRule(World, n, sel)} :
        Apply(res, [NoRet EXCEPT !.rule = res.r],
              [NoCall EXCEPT !.op = "getOrCreateRule", !.name = n, !.selector = sel])

CreateOrUpdateRule ==
  /\ Idle
  /\ \E n \in RuleNames, sel \in Selectors, v \in NewValues, whole \in BOOLEAN, build \in Builds :
      \E contents \in {IF whole THEN sel \o RuleBody(v) ELSE RuleBody(v)} :
        \E res \in {createOrUpdateRule(World, n, sel, contents, build)} :
          Apply(res, [NoRet EXCEPT !.value = res.r],
                [NoCall EXCEPT !.op = "createOrUpdateRule", !.name = n, !.selector = sel,
                               !.prop = "color", !.value = v, !.contents = contents,
                               !.build = build])

SetProperty ==
  /\ Idle
  /\ \E n \in RuleNames, sel \in Selectors, p \in Props, v \in NewValues :
      \E res \in {setProperty(World, n, sel, p, v)} :
        Apply(res, [NoRet EXCEPT !.value = res.r],
              [NoCall EXCEPT !.op = "setProperty", !.name = n, !.selector = sel,
                             !.prop = p, !.value = v])

GetProperty ==
  /\ Idle
  /\ \E n \in RuleNames, sel \in Selectors, p \in Props, strict \in BOOLEAN :
      \E res \in {getProperty(World, n, sel, p, strict)} :
        Apply(res, [NoRet EXCEPT !.value = res.r],
              [NoCall EXCEPT !.op = "getProperty", !.name = n, !.selector = sel,
                             !.prop = p, !.strict = strict])

\* the caller takes the result; the record of the call is cleared and the
\* document is left as it is
Return ==
  /\ call # NoCall
  /\ call' = NoCall
  /\ ret' = NoRet
  /\ events' = <<>>
  /\ pre' = Snapshot(World)
  /\ UNCHANGED <<childNodes, headNodes, hasHead>>

Next ==
  \/ GetStylesheet
  \/ GetOrCreateStylesheet
  \/ CreateOrUpdateStylesheet
  \/ GetRule
  \/ GetOrCreateRule
  \/ CreateOrUpdateRule
  \/ SetProperty
  \/ GetProperty
  \/ Return

Spec == Init /\ [][Next]_vars

\* the placement of new style nodes, over every small arrangement of the
\* document's direct children
InitPlacement == InitWith(InitDocs)

NextPlacement ==
  \/ GetStylesheet
  \/ GetOrCreateStylesheet
  \/ Return

SpecPlacement == InitPlacement /\ [][NextPlacement]_vars

\* ------------------------------------------------------------ observation
\* The document before the last call and after it, and what the claims read
\* off them.  These are stated on the data, not through the repository's
\* own lookups.
Before == [childNodes |-> pre.childNodes, headNodes |-> pre.headNodes,
           hasHead |-> pre.hasHead, events |-> <<>>]
After == World

AllHandles(w) ==
  {[in |-> "head", idx |-> i] : i \in 1..Len(w.headNodes)}
  \cup {[in |-> "doc", idx |-> i] : i \in 1..Len(w.childNodes)}

\* the style nodes of the document tagged with name n
Tagged(w, n) == {h \in AllHandles(w) : IsStyle(NodeAt(w, h)) /\ NodeAt(w, h).name = n}

HasSheet(w, n) == Tagged(w, n) # {}

TheSheet(w, n) == CHOOSE h \in Tagged(w, n) : TRUE

RulesOf(w, n) == NodeAt(w, TheSheet(w, n)).rules

NodeCount(w) == Len(w.headNodes) + Len(w.childNodes)

\* s ends with t: s is some text followed by t
IsSuffix(t, s) == \E k \in 0..Len(s) : SubSeq(s, k + 1, Len(s)) = t

\* the positions in a rule list of the rules whose selector text ends with sel
Matches(rules, sel) ==
  {i \in 1..Len(rules) : rules[i].kind = "style" /\ IsSuffix(sel, rules[i].selectorText)}

Min(S) == CHOOSE i \in S : \A j \in S : i <= j

EventTypes == {events[i].type : i \in 1..Len(events)}

\* ------------------------------------------------------------------ claims

\* C1: a lookup of a name no style sheet is tagged with returns absent; in
\* strict mode it dispatches exactly one UnknownStylesheet notification
\* carrying that name and no UnknownCssRule notification, in non-strict mode
\* it dispatches nothing.
C1_UnknownStylesheetNotified ==
  (call.op = "getStylesheet" /\ ~HasSheet(Before, call.name)) =>
    /\ ret.sheet = NoSheet
    /\ call.strict =>
         /\ Len(events) = 1
         /\ events[1].type = "UnknownStylesheet"
         /\ events[1].stylesheetName = call.name
    /\ ~call.strict => events = <<>>

C1_Witness ==
  /\ call.op = "getStylesheet"
  /\ call.strict
  /\ ~HasSheet(Before, call.name)
  /\ Len(events) = 1

\* C2: at most one style node is tagged with any given name, whatever calls
\* were made; getOrCreateStylesheet(n) adds a node only when none is tagged n
\* (so a second call adds none) and returns the one sheet tagged n.
C2_OneSheetPerName ==
  /\ \A n \in Names : Cardinality(Tagged(After, n)) <= 1
  /\ call.op = "getOrCreateStylesheet" =>
       /\ NodeCount(After) = NodeCount(Before) + (IF HasSheet(Before, call.name) THEN 0 ELSE 1)
       /\ Tagged(After, call.name) = {ret.sheet}
       /\ HasSheet(Before, call.name) =>
            /\ Snapshot(After) = Snapshot(Before)
            /\ ret.sheet = TheSheet(Before, call.name)

C2_Witness ==
  /\ call.op = "getOrCreateStylesheet"
  /\ HasSheet(Before, call.name)
  /\ ret.sheet = TheSheet(Before, call.name)

\* C3: in an existing sheet, getRule returns the first rule, in rule-list
\* order, whose selector text ends with the fragment, and absent exactly when
\* no rule's selector text ends with it.
C3_FirstSuffixMatch ==
  (call.op = "getRule" /\ HasSheet(Before, call.name)) =>
    LET m == Matches(RulesOf(Before, call.name), call.selector)
    IN IF m = {} THEN ret.rule = NoRule
       ELSE /\ ret.rule # NoRule
            /\ parentStyleSheet(ret.rule) = TheSheet(Before, call.name)
            /\ ret.rule.rule = Min(m)

\* two rules share the suffix and the lookup is by a proper suffix of the first
C3_Witness ==
  /\ call.op = "getRule"
  /\ HasSheet(Before, call.name)
  /\ Cardinality(Matches(RulesOf(Before, call.name), call.selector)) = 2
  /\ ret.rule.rule = 1
  /\ RuleAt(After, ret.rule).selectorText # call.selector

\* C4: after setProperty(n, sel, p, v), from any prior state, getProperty(n,
\* sel, p) returns v, and the text content of the backing node of n, reparsed,
\* holds a rule whose selector ends with sel carrying p = v.
C4_SetThenGet ==
  call.op = "setProperty" =>
    /\ HasSheet(After, call.name)
    /\ getProperty(After, call.name, call.selector, call.prop, TRUE).r = call.value
    /\ LET reparsed == ParseRules(NodeAt(After, TheSheet(After, call.name)).text)
       IN \E i \in Matches(reparsed, call.selector) :
            reparsed[i].style[call.prop] = call.value

\* the rule existed before the call with another value, and is found by a
\* proper suffix of its selector
C4_Witness ==
  /\ call.op = "setProperty"
  /\ HasSheet(Before, call.name)
  /\ getProperty(Before, call.name, call.selector, call.prop, FALSE).r
       \in Values \ {call.value}
  /\ getProperty(After, call.name, call.selector, call.prop, TRUE).r = call.value
  /\ RuleAt(After, getRule(After, call.name, call.selector, FALSE).r).selectorText
       # call.selector

\* C5: getOrCreateRule on a sheet that already holds a rule whose selector
\* ends with sel returns that rule and leaves the rule list as it was; a call
\* adds at most one rule and a repeated call adds none.
C5_GetOrCreateRuleIdempotent ==
  call.op = "getOrCreateRule" =>
    /\ (HasSheet(Before, call.name)
        /\ Matches(RulesOf(Before, call.name), call.selector) # {}) =>
         /\ ret.rule.rule = Min(Matches(RulesOf(Before, call.name), call.selector))
         /\ parentStyleSheet(ret.rule) = TheSheet(Before, call.name)
         /\ RulesOf(After, call.name) = RulesOf(Before, call.name)
    /\ HasSheet(Before, call.name) =>
         Len(RulesOf(After, call.name)) <= Len(RulesOf(Before, call.name)) + 1
    /\ Snapshot(getOrCreateRule(After, call.name, call.selector).w) = Snapshot(After)

C5_Witness ==
  /\ call.op = "getOrCreateRule"
  /\ HasSheet(Before, call.name)
  /\ Matches(RulesOf(Before, call.name), call.selector) # {}
  /\ Len(RulesOf(Before, call.name)) = 2
  /\ RulesOf(After, call.name) = RulesOf(Before, call.name)

\* a freshly inserted style node tagged n
NewStyleNode(n) == [tag |-> "style", name |-> n, text |-> <<>>, rules |-> <<>>]

StylePositions(nodes) == {i \in 1..Len(nodes) : IsStyle(nodes[i])}

\* the non-style children that come after the first style child
NonStyleAfterFirstStyle(nodes) ==
  {k \in 1..Len(nodes) : ~IsStyle(nodes[k]) /\ \E i \in StylePositions(nodes) : i < k}

\* the call created a style node in a document without head whose direct
\* children include a style node
CreatedAmongStyles ==
  /\ call.op = "getOrCreateStylesheet"
  /\ ~HasSheet(Before, call.name)
  /\ ~pre.hasHead
  /\ StylePositions(pre.childNodes) # {}

\* C6: without head and with a style node among the direct children, the new
\* node goes immediately before the first non-style child that follows the
\* first style child, or to the end when no non-style child follows it;
\* non-style children before the first style child play no part.
C6_InsertedAfterFirstStyle ==
  CreatedAmongStyles =>
    LET after == NonStyleAfterFirstStyle(pre.childNodes)
    IN childNodes =
         IF after # {}
         THEN SubSeq(pre.childNodes, 1, Min(after) - 1) \o <<NewStyleNode(call.name)>>
              \o SubSeq(pre.childNodes, Min(after), Len(pre.childNodes))
         ELSE pre.childNodes \o <<NewStyleNode(call.name)>>

\* C7: getOrCreateStylesheet for an absent name inserts exactly one style node
\* tagged with the name: as the last child of head when there is a head,
\* whatever the document's direct children are; as the first child of the
\* document when there is no head and no direct child is a style node.
C7_HeadFirstThenPrepend ==
  (call.op = "getOrCreateStylesheet" /\ ~HasSheet(Before, call.name)) =>
    /\ NodeCount(After) = NodeCount(Before) + 1
    /\ Cardinality(Tagged(After, call.name)) = 1
    /\ pre.hasHead =>
         /\ headNodes = pre.headNodes \o <<NewStyleNode(call.name)>>
         /\ childNodes = pre.childNodes
    /\ (~pre.hasHead /\ StylePositions(pre.childNodes) = {}) =>
         /\ childNodes = <<NewStyleNode(call.name)>> \o pre.childNodes
         /\ headNodes = pre.headNodes

\* a head, and a style node followed by other content among the direct children
C7_Witness ==
  /\ call.op = "getOrCreateStylesheet"
  /\ ~HasSheet(Before, call.name)
  /\ pre.hasHead
  /\ NonStyleAfterFirstStyle(pre.childNodes) # {}
  /\ headNodes = pre.headNodes \o <<NewStyleNode(call.name)>>

\* what a lookup that found nothing returns
Missed ==
  \/ call.op = "getRule" /\ ret.rule = NoRule
  \/ call.op = "getProperty" /\ ret.value = Undefined

\* C8: a rule lookup (getRule, or getProperty through it) that misses returns
\* absent and, in strict mode, dispatches exactly one notification:
\* UnknownStylesheet when the sheet is absent, UnknownCssRule with the name
\* and the selector when the sheet exists and no rule matches; in non-strict
\* mode it dispatches nothing.
C8_OneNotificationPerMiss ==
  call.op \in {"getRule", "getProperty"} =>
    /\ ~HasSheet(Before, call.name) =>
         /\ Missed
         /\ events = IF call.strict THEN <<UnknownStylesheetEvent(call.name)>> ELSE <<>>
    /\ (HasSheet(Before, call.name)
        /\ Matches(RulesOf(Before, call.name), call.selector) = {}) =>
         /\ Missed
         /\ events = IF call.strict
                     THEN <<UnknownCssRuleEvent(call.name, call.selector)>>
                     ELSE <<>>

C8_Witness ==
  /\ call.op = "getRule"
  /\ call.strict
  /\ ~HasSheet(Before, call.name)
  /\ EventTypes = {"UnknownStylesheet"}

\* C9: getOrCreateStylesheet(n) returns a sheet tagged n, and getOrCreateRule(n,
\* sel) returns a rule of the sheet tagged n whose selector text ends with
\* sel; neither ever returns absent.
C9_CreationNeverAbsent ==
  /\ call.op = "getOrCreateStylesheet" =>
       /\ ret.sheet # NoSheet
       /\ ret.sheet \in Tagged(After, call.name)
  /\ call.op = "getOrCreateRule" =>
       /\ ret.rule # NoRule
       /\ parentStyleSheet(ret.rule) \in Tagged(After, call.name)
       /\ ret.rule.rule \in Matches(RulesOf(After, call.name), call.selector)

\* the rule was appended to a sheet that held another rule already
C9_Witness ==
  /\ call.op = "getOrCreateRule"
  /\ HasSheet(Before, call.name)
  /\ Len(RulesOf(Before, call.name)) = 1
  /\ Matches(RulesOf(Before, call.name), call.selector) = {}
  /\ ret.rule.rule = 2

\* C10: after createOrUpdateRule(n, sel, text) with text carrying p = v,
\* getRule(n, sel) finds a rule and getProperty(n, sel, p) returns v.
C10_RuleTextApplied ==
  call.op = "createOrUpdateRule" =>
    /\ getRule(After, call.name, call.selector, FALSE).r # NoRule
    /\ getProperty(After, call.name, call.selector, call.prop, FALSE).r = call.value

\* the text the live rules of a style node serialise to, rule after rule
LiveText(node) == Flatten([i \in 1..Len(node.rules) |-> cssText(node.rules[i])])

\* C11: after every completed setProperty or createOrUpdateRule on sheet n,
\* the text content of the backing node of n is the concatenation, in rule-list
\* order and without separators, of the cssText of the rules of the sheet.
C11_TextInSync ==
  (call.op \in {"setProperty", "createOrUpdateRule"} /\ ret.value = Void) =>
    /\ HasSheet(After, call.name)
    /\ NodeAt(After, TheSheet(After, call.name)).text
         = LiveText(NodeAt(After, TheSheet(After, call.name)))

\* a declaration of an existing two-rule sheet was changed by the call
C11_Witness ==
  /\ call.op = "setProperty"
  /\ HasSheet(Before, call.name)
  /\ Len(RulesOf(Before, call.name)) = 2
  /\ RulesOf(After, call.name) # RulesOf(Before, call.name)
  /\ NodeAt(After, TheSheet(After, call.name)).text
       = LiveText(NodeAt(After, TheSheet(After, call.name)))

\* a rule with selector sel and no declaration
EmptyRule(sel) == [kind |-> "style", selectorText |-> sel, style |-> [p \in Props |-> ""]]

\* the call looked for a rule in an existing sheet that held none matching
AppendedToSheet ==
  /\ call.op = "getOrCreateRule"
  /\ HasSheet(Before, call.name)
  /\ Matches(RulesOf(Before, call.name), call.selector) = {}

\* C12: when getOrCreateRule(n, sel) finds no matching rule in an existing
\* sheet n, the rule list afterwards is the previous list, unchanged, followed
\* by one new rule with selector sel and no declaration, and that last rule
\* is the one returned.
C12_AppendedAtEnd ==
  AppendedToSheet =>
    /\ RulesOf(After, call.name) = RulesOf(Before, call.name) \o <<EmptyRule(call.selector)>>
    /\ parentStyleSheet(ret.rule) = TheSheet(After, call.name)
    /\ ret.rule.rule = Len(RulesOf(After, call.name))

\* the sheet held a rule carrying a declaration before the call
C12_Witness ==
  /\ AppendedToSheet
  /\ Len(RulesOf(Before, call.name)) = 1
  /\ RulesOf(Before, call.name)[1].kind = "style"
  /\ RulesOf(Before, call.name)[1].style["color"] # ""
  /\ Len(RulesOf(After, call.name)) = 2

\* the positions in a rule list of the entries that are no style rules
NonPlain(rules) == {i \in 1..Len(rules) : rules[i].kind # "style"}

\* the style rule at position i of the list answers the selector
Answers(rules, i, sel) == rules[i].kind = "style" /\ IsSuffix(sel, rules[i].selectorText)

\* C13: only style rules take part in rule matching: for a sheet whose rule
\* list holds entries that are no style rules, getRule(n, sel) never returns
\* such an entry and completes, returning the first style rule whose selector
\* ends with sel, or absent when there is none, wherever the other entries sit.
C13_OnlyStyleRulesMatch ==
  (call.op = "getRule" /\ HasSheet(Before, call.name)
     /\ NonPlain(RulesOf(Before, call.name)) # {}) =>
    \/ /\ ret.rule = NoRule
       /\ \A i \in 1..Len(RulesOf(Before, call.name)) :
            ~Answers(RulesOf(Before, call.name), i, call.selector)
    \/ /\ ret.rule # NoRule
       /\ ret.rule.rule \in 1..Len(RulesOf(Before, call.name))
       /\ Answers(RulesOf(Before, call.name), ret.rule.rule, call.selector)
       /\ \A j \in 1..(ret.rule.rule - 1) :
            ~Answers(RulesOf(Before, call.name), j, call.selector)

\* an at-rule sits in front of the style rule that is returned
C13_Witness ==
  /\ call.op = "getRule"
  /\ HasSheet(Before, call.name)
  /\ 1 \in NonPlain(RulesOf(Before, call.name))
  /\ ret.rule # NoRule
  /\ ret.rule.rule = 2
  /\ RuleAt(After, ret.rule).kind = "style"

Lookups == {"getStylesheet", "getRule", "getProperty"}

\* C14: getStylesheet, getRule and getProperty are read-only, strict or not:
\* the child nodes of the document, its style sheets, their rule lists, the
\* declarations of their rules and the text of their nodes are left as they
\* were; a notification is dispatched by a strict lookup only.
C14_LookupsReadOnly ==
  call.op \in Lookups =>
    /\ Snapshot(After) = Snapshot(Before)
    /\ \A n \in Names : HasSheet(Before, n) =>
         /\ HasSheet(After, n)
         /\ RulesOf(After, n) = RulesOf(Before, n)
         /\ NodeAt(After, TheSheet(After, n)).text = NodeAt(Before, TheSheet(Before, n)).text
    /\ ~call.strict => events = <<>>

\* a strict rule lookup missed in a sheet that holds two rules
C14_Witness ==
  /\ call.op = "getRule"
  /\ call.strict
  /\ events # <<>>
  /\ HasSheet(Before, call.name)
  /\ Len(RulesOf(Before, call.name)) = 2
  /\ NodeAt(After, TheSheet(After, call.name)).text # <<>>

Writers == {"getOrCreateStylesheet", "createOrUpdateStylesheet", "getOrCreateRule",
            "createOrUpdateRule", "setProperty"}

\* C15: getOrCreateStylesheet, createOrUpdateStylesheet, getOrCreateRule,
\* createOrUpdateRule and setProperty dispatch no UnknownStylesheet and no
\* UnknownCssRule notification, from any state, also when the sheet or the
\* rule is absent at the start of the call and is created.
C15_WritersNeverNotify ==
  call.op \in Writers => events = <<>>

\* the sheet, and with it the rule, was absent and was created by the call
C15_Witness ==
  /\ call.op = "setProperty"
  /\ ~HasSheet(Before, call.name)
  /\ HasSheet(After, call.name)
  /\ Len(RulesOf(After, call.name)) = 1
  /\ events = <<>>

\* the style nodes of the document tagged with name n, in document order
NodesTagged(w, n) ==
  SelectSeq(w.headNodes \o w.childNodes, LAMBDA node : IsStyle(node) /\ node.name = n)

\* C16: an operation invoked with sheet name n leaves every style sheet
\* tagged with another name m unchanged: its rule list, the order of its
\* rules, their declarations and the text of its node are the same before and
\* after, also when the operation creates sheet n or appends a rule to it.
C16_OtherSheetsUntouched ==
  call.op # "none" =>
    \A m \in Names \ {call.name} : NodesTagged(After, m) = NodesTagged(Before, m)

\* sheet n was created, with a rule, next to another sheet that holds rules
C16_Witness ==
  /\ call.op \in {"getOrCreateRule", "setProperty", "createOrUpdateRule"}
  /\ ~HasSheet(Before, call.name)
  /\ HasSheet(After, call.name)
  /\ \E m \in Names \ {call.name} :
       /\ HasSheet(Before, m)
       /\ Len(RulesOf(Before, m)) = 2
       /\ NodesTagged(After, m) = NodesTagged(Before, m)

====
